---- MODULE Spec2Model ----
(***************************************************************************)
(* Model of the WebSocket chat hub of src/main.go.                         *)
(*                                                                         *)
(* One handler goroutine per connection (handleConnections), one           *)
(* broadcaster goroutine (handleBroadcast), the shared maps clients and    *)
(* onlineUsers, the mutex mu and the unbuffered channel broadcast.         *)
(* A program counter value "Lnn" means "about to execute line nn of        *)
(* src/main.go".  Variables marked (history) record what happened and are  *)
(* never read by the program's actions.  A local variable is reset to its  *)
(* zero value after its last use.                                          *)
(***************************************************************************)
EXTENDS Integers, Sequences, FiniteSets, TLC

\* ---------------------------------------------------------------- bounds
MaxConns == 2                 \* connections that ever reach /ws
MaxChats == 1                 \* chat payloads read over the whole run

Conns == 1..MaxConns          \* connection identities (*websocket.Conn)
Names == {"Alice", "Bob"}     \* display names a client may choose
NoName == ""                  \* the zero value of a Go string
PayloadTypes == {"message", "online_users"}
PayloadNames == Names \cup {NoName}
PayloadUsers == {{}, {"Alice"}}
Contents == {"hi"}

Broadcaster == 0              \* task id of the handleBroadcast goroutine
Free == -1                    \* mu is unlocked

VARIABLES
    alive,        \* the server process is running
    pc,           \* pc[h]: position of the handler of connection h
    clientName,   \* clientName[h]: the handler's local clientName
    snap,         \* snap[h]: the handler's local currentOnlineUsers
    out,          \* out[h]: the handler's local msg (line 73)
    clients,      \* map[*websocket.Conn]string
    onlineUsers,  \* map[string]bool
    mu,           \* holder of the mutex, or Free
    closed,       \* closed[c]: Close() was called on connection c
    lastRecv,     \* (history) lastRecv[c]: the last frame written to c
    copies,       \* (history) copies[c]: writes of cur to c in this fan-out
    bpc,          \* position of the broadcaster
    cur,          \* the broadcaster's msg, with the handler and line it is from
    todo,         \* entries the running range over clients has not done
                  \*   with: those it may still yield, and the current one
    victim,       \* the broadcaster's loop variables (client, name)
    regAtDeq,     \* (history) DOMAIN clients when cur was dequeued
    failedNow,    \* (history) connections whose send failed in this fan-out
    chats,        \* (history) chat payloads read so far
    handshake,    \* (history) handshake[h]: how the first receive ended
    deqCount,     \* (history) messages taken from the channel so far
    lastSeq,      \* (history) lastSeq[c]: deqCount of the last broadcast frame
                  \*   written to c, 0 if none
    sent,         \* (history) sent[h]: the lines of handler h's completed
                  \*   sends (WriteJSON of line 57, broadcast <- of 69..89)
    everReg,      \* (history) names that have been a value of clients
    evicted,      \* (history) connections the broadcaster closed before
                  \*   their handler had seen any failure, until it ends
    gone          \* (history) handlers whose delete(clients, ws) found the
                  \* connection already out of clients, until they have
                  \* deleted the name

vars == <<alive, pc, clientName, snap, out, clients, onlineUsers, mu, closed,
          lastRecv, copies, bpc, cur, todo, victim, regAtDeq, failedNow,
          chats, handshake, deqCount, lastSeq, sent, everReg, evicted,
          gone>>

\* ------------------------------------------------------------- data model
\* type Message struct (Users is order-irrelevant and kept as a set)
Message(t, n, c, u) == [type |-> t, name |-> n, content |-> c, users |-> u]

ZeroMessage == Message("", NoName, "", {})

\* a message tagged with the handler and the line that sent it
Envelope(m, h, site) == [msg |-> m, from |-> h, site |-> site]

NoEnvelope == Envelope(ZeroMessage, 0, "")

NoVictim == [client |-> 0, name |-> NoName]

\* fmt.Sprintf("%s 加入了聊天室", clientName) / ("%s 離開了聊天室", clientName)
JoinedText(n) == n \o " joined"
LeftText(n) == n \o " left"

\* getOnlineUsers: the keys of onlineUsers, whatever their values
getOnlineUsers(ou) == DOMAIN ou

\* onlineUsers[name] = true
OnlineInsert(ou, n) == [k \in DOMAIN ou \cup {n} |-> TRUE]

\* delete(onlineUsers, name)
OnlineDelete(ou, n) == [k \in DOMAIN ou \ {n} |-> ou[k]]

\* a registration that enters nothing
ClientsInsertNone(cl, c, n) == cl

\* clients[ws] = clientName
ClientsInsert(cl, c, n) ==
    [k \in DOMAIN cl \cup {c} |-> IF k = c THEN n ELSE cl[k]]

\* a delete that removes nothing
ClientsDeleteNone(cl, c) == cl

\* delete(clients, ws)
ClientsDelete(cl, c) == [k \in DOMAIN cl \ {c} |-> cl[k]]

\* a test that lets an empty name through
HandshakeFailedErrOnly(err, n) == err

\* the test of line 42
HandshakeFailed(err, n) == err \/ n = NoName

\* the online map after line 50 and the snapshot of line 52
JoinOnline(ou, n) == OnlineInsert(ou, n)

\* a snapshot taken before the insertion of line 50
JoinSnapshotBefore(ou, n) == getOnlineUsers(ou)

JoinSnapshot(ou, n) == getOnlineUsers(JoinOnline(ou, n))

\* the online map after line 79 and the snapshot of line 80
LeaveOnline(ou, n) == OnlineDelete(ou, n)

\* a snapshot taken before the removal of the leaver's name
LeaveSnapshotBefore(ou, n) == getOnlineUsers(ou)

LeaveSnapshot(ou, n) == getOnlineUsers(LeaveOnline(ou, n))

\* no stamp: the payload goes on as the peer sent it
ForceSenderKeepAll(payload, n) == payload

\* a stamp that keeps the name of the payload
ForceSenderKeepName(payload, n) ==
    Message("message", payload.name, payload.content, payload.users)

\* msg.Type = "message"; msg.Name = clientName   (lines 87-88)
ForceSender(payload, n) ==
    Message("message", n, payload.content, payload.users)

\* a rule that skips the connections of the sender, whatever the type
SuppressedSender(m, name) == m.name # NoName /\ name = m.name

\* the broadcaster's suppression rule (lines 97-101)
Suppressed(m, name) ==
    m.type = "online_users" /\ m.name # NoName /\ name = m.name

\* what the range over clients may still yield after it yielded c and the
\* write to c succeeded / failed (the loop goes on after lines 104-111)
\* a range that ends after the first successful write
RestAfterSendAbort(td, c) == {}

\* a range that yields again a connection already written to
RestAfterSendKeep(td, c) == td

RestAfterSend(td, c) == td \ {c}

\* a failed write that ends the range
RestAfterFailAbort(td, c) == {}

RestAfterFail(td, c) == td \ {c}

\* WriteJSON(m) succeeded on connection c: the frame is on c's wire
Deliver(lr, c, m, h, site) == [lr EXCEPT ![c] = Envelope(m, h, site)]

Init ==
    /\ alive = TRUE
    /\ pc = [h \in Conns |-> "L33"]
    /\ clientName = [h \in Conns |-> NoName]
    /\ snap = [h \in Conns |-> {}]
    /\ out = [h \in Conns |-> ZeroMessage]
    /\ clients = [c \in {} |-> NoName]
    /\ onlineUsers = [n \in {} |-> TRUE]
    /\ mu = Free
    /\ closed = [c \in Conns |-> FALSE]
    /\ lastRecv = [c \in Conns |-> NoEnvelope]
    /\ copies = [c \in Conns |-> 0]
    /\ bpc = "L95"
    /\ cur = NoEnvelope
    /\ todo = {}
    /\ victim = NoVictim
    /\ regAtDeq = {}
    /\ failedNow = {}
    /\ chats = 0
    /\ handshake = [h \in Conns |-> "none"]
    /\ deqCount = 0
    /\ lastSeq = [c \in Conns |-> 0]
    /\ sent = [h \in Conns |-> <<>>]
    /\ everReg = {}
    /\ evicted = {}
    /\ gone = {}

\* ------------------------------------------------------- shared primitives
\* broadcast <- m : the channel is unbuffered, so the send completes in the
\* same step in which the broadcaster's "for msg := range broadcast" takes
\* the message and starts "for client, name := range clients".
ChanSend(h, m) ==
    /\ bpc = "L95"
    /\ bpc' = "L96"
    /\ cur' = Envelope(m, h, pc[h])
    /\ todo' = DOMAIN clients
    /\ regAtDeq' = DOMAIN clients
    /\ copies' = [c \in Conns |-> 0]
    /\ failedNow' = {}
    /\ deqCount' = deqCount + 1
    /\ sent' = [sent EXCEPT ![h] = Append(@, pc[h])]

\* the broadcaster is inside its range over clients
Iterating == bpc \in {"L96", "L97", "L107", "L108"}

\* tasks about to touch the map clients
ClientsAccessors ==
    {h \in Conns : pc[h] \in {"L53", "L61", "L77"}}
        \cup (IF bpc \in {"L96", "L108"} THEN {Broadcaster} ELSE {})

\* two tasks are about to touch clients and at most one of them holds mu
ClientsRace == Cardinality(ClientsAccessors) >= 2

\* the handler of h is about to write to h (line 57) while the broadcaster,
\* whose range yielded h, is about to write to it (line 103): h is in clients
\* since line 53 and nothing orders the two writes
WriteOverlap(h) ==
    /\ pc[h] = "L57"
    /\ bpc = "L97" /\ victim.client = h
    /\ ~Suppressed(cur.msg, victim.name)

\* ------------------------------------------------- handleConnections(ws)
\* line 33, err == nil
Upgrade(h) ==
    /\ alive /\ pc[h] = "L33"
    /\ pc' = [pc EXCEPT ![h] = "L41"]
    /\ UNCHANGED <<alive, clientName, snap, out, clients, onlineUsers, mu,
                   closed, lastRecv, copies, bpc, cur, todo, victim, regAtDeq,
                   failedNow, chats, handshake, deqCount, lastSeq, sent,
                   everReg, evicted, gone>>

\* lines 33-35, err != nil: log.Fatal exits the process
UpgradeFail(h) ==
    /\ alive /\ pc[h] = "L33"
    /\ alive' = FALSE
    /\ UNCHANGED <<pc, clientName, snap, out, clients, onlineUsers, mu,
                   closed, lastRecv, copies, bpc, cur, todo, victim, regAtDeq,
                   failedNow, chats, handshake, deqCount, lastSeq, sent,
                   everReg, evicted, gone>>

\* lines 41-46: the first receive returned err and a payload named n; the
\* return of line 44 leads to the deferred ws.Close()
JoinRead(h, err, n) ==
    /\ alive /\ pc[h] = "L41"
    /\ handshake' = [handshake EXCEPT ![h] =
                        IF err THEN "err" ELSE IF n = NoName THEN "empty"
                                                             ELSE "named"]
    /\ IF HandshakeFailed(err, n)
       THEN /\ pc' = [pc EXCEPT ![h] = "L37"]
            /\ UNCHANGED clientName
       ELSE /\ clientName' = [clientName EXCEPT ![h] = n]
            /\ pc' = [pc EXCEPT ![h] = "L49"]
    /\ UNCHANGED <<alive, snap, out, clients, onlineUsers, mu, closed,
                   lastRecv, copies, bpc, cur, todo, victim, regAtDeq,
                   failedNow, chats, deqCount, lastSeq, sent, everReg,
                   evicted, gone>>

\* mu.Lock() at lines 49, 62 and 78
HandlerLock(h) ==
    /\ alive /\ pc[h] \in {"L49", "L62", "L78"}
    /\ mu = Free
    /\ mu' = h
    /\ pc' = [pc EXCEPT ![h] = CASE pc[h] = "L49" -> "L50"
                                 [] pc[h] = "L62" -> "L63"
                                 [] pc[h] = "L78" -> "L79"]
    /\ UNCHANGED <<alive, clientName, snap, out, clients, onlineUsers, closed,
                   lastRecv, copies, bpc, cur, todo, victim, regAtDeq,
                   failedNow, chats, handshake, deqCount, lastSeq, sent,
                   everReg, evicted, gone>>

\* lines 50-52: the name enters onlineUsers and the snapshot is taken, both
\* before the connection is entered in clients
JoinRegister(h) ==
    /\ alive /\ pc[h] = "L50"
    /\ onlineUsers' = JoinOnline(onlineUsers, clientName[h])
    /\ snap' = [snap EXCEPT ![h] = JoinSnapshot(onlineUsers, clientName[h])]
    /\ pc' = [pc EXCEPT ![h] = "L53"]
    /\ UNCHANGED <<alive, clientName, out, clients, mu, closed, lastRecv,
                   copies, bpc, cur, todo, victim, regAtDeq, failedNow, chats,
                   handshake, deqCount, lastSeq, sent, everReg, evicted, gone>>

\* lines 53-54: clients[ws] = clientName, then mu.Unlock().  A range over
\* clients that is under way may or may not yield the new entry.
ClientsRegister(h) ==
    /\ alive /\ pc[h] = "L53"
    /\ clients' = ClientsInsert(clients, h, clientName[h])
    /\ mu' = Free
    /\ pc' = [pc EXCEPT ![h] = "L57"]
    /\ everReg' = everReg \cup {clients'[k] : k \in DOMAIN clients'}
    /\ \/ todo' = todo
       \/ Iterating /\ todo' = todo \cup {h}
    /\ UNCHANGED <<alive, clientName, snap, out, onlineUsers, closed,
                   lastRecv, copies, bpc, cur, victim, regAtDeq, failedNow,
                   chats, handshake, deqCount, lastSeq, sent, evicted, gone>>

\* line 57, err == nil
PresenceSendOK(h) ==
    /\ alive /\ pc[h] = "L57"
    /\ ~closed[h]
    /\ lastRecv' = Deliver(lastRecv, h,
                           Message("online_users", NoName, "", snap[h]),
                           h, "L57")
    /\ sent' = [sent EXCEPT ![h] = Append(@, "L57")]
    /\ snap' = [snap EXCEPT ![h] = {}]
    /\ pc' = [pc EXCEPT ![h] = "L69"]
    /\ UNCHANGED <<alive, clientName, out, clients, onlineUsers, mu, closed,
                   copies, bpc, cur, todo, victim, regAtDeq, failedNow, chats,
                   handshake, deqCount, lastSeq, everReg, evicted, gone>>

\* lines 57-60, err != nil
PresenceSendFail(h) ==
    /\ alive /\ pc[h] = "L57"
    /\ snap' = [snap EXCEPT ![h] = {}]
    /\ pc' = [pc EXCEPT ![h] = "L61"]
    /\ UNCHANGED <<alive, clientName, out, clients, onlineUsers, mu, closed,
                   lastRecv, copies, bpc, cur, todo, victim, regAtDeq,
                   failedNow, chats, handshake, deqCount, lastSeq, sent,
                   everReg, evicted, gone>>

\* line 57 while the broadcaster writes to the same connection: the
\* connection may detect the second writer and panic in WriteJSON ("concurrent
\* write to websocket connection").  In the handler's goroutine net/http
\* recovers the panic: the handler goes from there to the deferred
\* ws.Close(), and lines 58-66 do not run.
PresenceSendPanic(h) ==
    /\ alive /\ WriteOverlap(h)
    /\ snap' = [snap EXCEPT ![h] = {}]
    /\ pc' = [pc EXCEPT ![h] = "L37"]
    /\ UNCHANGED <<alive, clientName, out, clients, onlineUsers, mu, closed,
                   lastRecv, copies, bpc, cur, todo, victim, regAtDeq,
                   failedNow, chats, handshake, deqCount, lastSeq, sent,
                   everReg, evicted, gone>>

\* delete(clients, ws) at lines 61 and 77, mu not held.  An entry removed
\* before the running range reached it is not produced.
HandlerDeleteClient(h) ==
    /\ alive /\ pc[h] \in {"L61", "L77"}
    /\ clients' = ClientsDelete(clients, h)
    /\ todo' = todo \ {h}
    /\ gone' = IF h \in DOMAIN clients THEN gone ELSE gone \cup {h}
    /\ pc' = [pc EXCEPT ![h] = IF pc[h] = "L61" THEN "L62" ELSE "L78"]
    /\ UNCHANGED <<alive, clientName, snap, out, onlineUsers, mu, closed,
                   lastRecv, copies, bpc, cur, victim, regAtDeq, failedNow,
                   chats, handshake, deqCount, lastSeq, sent, everReg, evicted>>

\* lines 63-65: the name is deleted and mu released; the return of line 65
\* leads to the deferred ws.Close()
RollbackDeleteOnline(h) ==
    /\ alive /\ pc[h] = "L63"
    /\ onlineUsers' = OnlineDelete(onlineUsers, clientName[h])
    /\ mu' = Free
    /\ gone' = gone \ {h}
    /\ pc' = [pc EXCEPT ![h] = "L37"]
    /\ UNCHANGED <<alive, clientName, snap, out, clients, closed, lastRecv,
                   copies, bpc, cur, todo, victim, regAtDeq, failedNow, chats,
                   handshake, deqCount, lastSeq, sent, everReg, evicted>>

\* the deferred ws.Close() of line 37 runs when the handler returns (lines
\* 44, 65, 85) or unwinds, and the handler ends
DeferredClose(h) ==
    /\ alive /\ pc[h] = "L37"
    /\ closed' = [closed EXCEPT ![h] = TRUE]
    /\ evicted' = evicted \ {h}
    /\ pc' = [pc EXCEPT ![h] = "done"]
    /\ UNCHANGED <<alive, clientName, snap, out, clients, onlineUsers, mu,
                   lastRecv, copies, bpc, cur, todo, victim, regAtDeq,
                   failedNow, chats, handshake, deqCount, lastSeq, sent,
                   everReg, gone>>

\* line 69
EnqueueJoin(h) ==
    /\ alive /\ pc[h] = "L69"
    /\ ChanSend(h, Message("join", NoName, JoinedText(clientName[h]), {}))
    /\ pc' = [pc EXCEPT ![h] = "L74"]
    /\ UNCHANGED <<alive, clientName, snap, out, clients, onlineUsers, mu,
                   closed, lastRecv, victim, chats, handshake, lastSeq,
                   everReg, evicted, gone>>

\* lines 73-75, err == nil: a payload was received into msg.  A frame that
\* arrived before a Close() of the connection can still be received after it
ChatRead(h, payload) ==
    /\ alive /\ pc[h] = "L74"
    /\ chats < MaxChats
    /\ chats' = chats + 1
    /\ out' = [out EXCEPT ![h] = payload]
    /\ pc' = [pc EXCEPT ![h] = "L87"]
    /\ UNCHANGED <<alive, clientName, snap, clients, onlineUsers, mu, closed,
                   lastRecv, copies, bpc, cur, todo, victim, regAtDeq,
                   failedNow, handshake, deqCount, lastSeq, sent, everReg,
                   evicted, gone>>

\* lines 87-88
ChatStamp(h) ==
    /\ alive /\ pc[h] = "L87"
    /\ out' = [out EXCEPT ![h] = ForceSender(out[h], clientName[h])]
    /\ pc' = [pc EXCEPT ![h] = "L89"]
    /\ UNCHANGED <<alive, clientName, snap, clients, onlineUsers, mu, closed,
                   lastRecv, copies, bpc, cur, todo, victim, regAtDeq,
                   failedNow, chats, handshake, deqCount, lastSeq, sent,
                   everReg, evicted, gone>>

\* line 89, then the next iteration declares a fresh msg
ChatEnqueue(h) ==
    /\ alive /\ pc[h] = "L89"
    /\ ChanSend(h, out[h])
    /\ out' = [out EXCEPT ![h] = ZeroMessage]
    /\ pc' = [pc EXCEPT ![h] = "L74"]
    /\ UNCHANGED <<alive, clientName, snap, clients, onlineUsers, mu, closed,
                   lastRecv, victim, chats, handshake, lastSeq, everReg,
                   evicted, gone>>

\* lines 74-76, err != nil: the peer went away or the connection was closed
LeaveReadFail(h) ==
    /\ alive /\ pc[h] = "L74"
    /\ pc' = [pc EXCEPT ![h] = "L77"]
    /\ UNCHANGED <<alive, clientName, snap, out, clients, onlineUsers, mu,
                   closed, lastRecv, copies, bpc, cur, todo, victim, regAtDeq,
                   failedNow, chats, handshake, deqCount, lastSeq, sent,
                   everReg, evicted, gone>>

\* lines 79-81
LeaveDeleteOnline(h) ==
    /\ alive /\ pc[h] = "L79"
    /\ onlineUsers' = LeaveOnline(onlineUsers, clientName[h])
    /\ snap' = [snap EXCEPT ![h] = LeaveSnapshot(onlineUsers, clientName[h])]
    /\ mu' = Free
    /\ gone' = gone \ {h}
    /\ pc' = [pc EXCEPT ![h] = "L82"]
    /\ UNCHANGED <<alive, clientName, out, clients, closed, lastRecv, copies,
                   bpc, cur, todo, victim, regAtDeq, failedNow, chats,
                   handshake, deqCount, lastSeq, sent, everReg, evicted>>

\* line 82
EnqueueLeave(h) ==
    /\ alive /\ pc[h] = "L82"
    /\ ChanSend(h, Message("leave", NoName, LeftText(clientName[h]), {}))
    /\ pc' = [pc EXCEPT ![h] = "L83"]
    /\ UNCHANGED <<alive, clientName, snap, out, clients, onlineUsers, mu,
                   closed, lastRecv, victim, chats, handshake, lastSeq,
                   everReg, evicted, gone>>

\* lines 83-85: the break of line 85 leads to the deferred ws.Close()
EnqueuePresence(h) ==
    /\ alive /\ pc[h] = "L83"
    /\ ChanSend(h, Message("online_users", NoName, "", snap[h]))
    /\ snap' = [snap EXCEPT ![h] = {}]
    /\ pc' = [pc EXCEPT ![h] = "L37"]
    /\ UNCHANGED <<alive, clientName, out, clients, onlineUsers, mu, closed,
                   lastRecv, victim, chats, handshake, lastSeq, everReg,
                   evicted, gone>>

\* ------------------------------------------------------ handleBroadcast()
\* line 96: the range yields the entry (c, clients[c]) into the loop
\* variables; the map is not read again for this entry
BroadcastYield(c) ==
    /\ alive /\ bpc = "L96"
    /\ c \in todo
    /\ victim' = [client |-> c, name |-> clients[c]]
    /\ bpc' = "L97"
    /\ UNCHANGED <<alive, pc, clientName, snap, out, clients, onlineUsers, mu,
                   closed, lastRecv, copies, cur, todo, regAtDeq, failedNow,
                   chats, handshake, deqCount, lastSeq, sent, everReg,
                   evicted, gone>>

\* lines 97-103, err == nil: the message is written to client, unless the
\* suppression rule skips it; the handler of client may have run since the
\* yield
BroadcastSend(c) ==
    /\ alive /\ bpc = "L97"
    /\ victim.client = c
    /\ todo' = RestAfterSend(todo, c)
    /\ IF Suppressed(cur.msg, victim.name)
       THEN UNCHANGED <<lastRecv, copies, lastSeq>>
       ELSE /\ ~closed[c]
            /\ lastRecv' = Deliver(lastRecv, c, cur.msg, cur.from, cur.site)
            /\ copies' = [copies EXCEPT ![c] = @ + 1]
            /\ lastSeq' = [lastSeq EXCEPT ![c] = deqCount]
    /\ victim' = NoVictim
    /\ bpc' = "L96"
    /\ UNCHANGED <<alive, pc, clientName, snap, out, clients, onlineUsers, mu,
                   closed, cur, regAtDeq, failedNow, chats, handshake,
                   deqCount, sent, everReg, evicted, gone>>

\* lines 97-106, err != nil: the failed write changes nothing that another
\* task can see, so it is one step with client.Close(); then wait for mu
BroadcastSendFail(c) ==
    /\ alive /\ bpc = "L97"
    /\ victim.client = c
    /\ ~Suppressed(cur.msg, victim.name)
    /\ todo' = RestAfterFail(todo, c)
    /\ closed' = [closed EXCEPT ![c] = TRUE]
    /\ failedNow' = failedNow \cup {c}
    /\ evicted' = IF pc[c] \in {"L57", "L69", "L74", "L87", "L89"}
                  THEN evicted \cup {c} ELSE evicted
    /\ bpc' = "L107"
    /\ UNCHANGED <<alive, pc, clientName, snap, out, clients, onlineUsers, mu,
                   lastRecv, copies, cur, victim, regAtDeq, chats, handshake,
                   deqCount, lastSeq, sent, everReg, gone>>

\* line 107
EvictLock ==
    /\ alive /\ bpc = "L107"
    /\ mu = Free
    /\ mu' = Broadcaster
    /\ bpc' = "L108"
    /\ UNCHANGED <<alive, pc, clientName, snap, out, clients, onlineUsers,
                   closed, lastRecv, copies, cur, todo, victim, regAtDeq,
                   failedNow, chats, handshake, deqCount, lastSeq, sent,
                   everReg, evicted, gone>>

\* lines 108-110
EvictDelete ==
    /\ alive /\ bpc = "L108"
    /\ clients' = ClientsDelete(clients, victim.client)
    /\ onlineUsers' = OnlineDelete(onlineUsers, victim.name)
    /\ mu' = Free
    /\ victim' = NoVictim
    /\ bpc' = "L96"
    /\ UNCHANGED <<alive, pc, clientName, snap, out, closed, lastRecv, copies,
                   cur, todo, regAtDeq, failedNow, chats, handshake, deqCount,
                   lastSeq, sent, everReg, evicted, gone>>

\* line 96: the range over clients is exhausted; back to line 95
BroadcastDone ==
    /\ alive /\ bpc = "L96"
    /\ todo = {}
    /\ bpc' = "L95"
    /\ cur' = NoEnvelope
    /\ regAtDeq' = {}
    /\ failedNow' = {}
    /\ copies' = [c \in Conns |-> 0]
    /\ UNCHANGED <<alive, pc, clientName, snap, out, clients, onlineUsers, mu,
                   closed, lastRecv, todo, victim, chats, handshake, deqCount,
                   lastSeq, sent, everReg, evicted, gone>>

\* line 103 while the handler of the same connection writes to it at line 57:
\* the panic of the connection in the broadcaster's goroutine is not recovered
\* and ends the process
BroadcastSendPanic ==
    /\ alive /\ \E h \in Conns : WriteOverlap(h)
    /\ alive' = FALSE
    /\ UNCHANGED <<pc, clientName, snap, out, clients, onlineUsers, mu,
                   closed, lastRecv, copies, bpc, cur, todo, victim, regAtDeq,
                   failedNow, chats, handshake, deqCount, lastSeq, sent,
                   everReg, evicted, gone>>

\* Unsynchronised accesses to clients (lines 61, 77 and 96 do not hold mu):
\* besides the interleaved outcomes above, the Go runtime may detect the
\* overlap and throw "fatal error: concurrent map ...", which ends the process
RaceFatal ==
    /\ alive /\ ClientsRace
    /\ alive' = FALSE
    /\ UNCHANGED <<pc, clientName, snap, out, clients, onlineUsers, mu,
                   closed, lastRecv, copies, bpc, cur, todo, victim, regAtDeq,
                   failedNow, chats, handshake, deqCount, lastSeq, sent,
                   everReg, evicted, gone>>

\* ---------------------------------------------------------- specification
Payloads ==
    {Message(t, n, c, u) : t \in PayloadTypes, n \in PayloadNames,
                           c \in Contents, u \in PayloadUsers}

HandlerStep(h) ==
    \/ Upgrade(h)
    \/ UpgradeFail(h)
    \/ \E err \in BOOLEAN, n \in PayloadNames : JoinRead(h, err, n)
    \/ HandlerLock(h)
    \/ JoinRegister(h)
    \/ ClientsRegister(h)
    \/ PresenceSendOK(h)
    \/ PresenceSendFail(h)
    \/ PresenceSendPanic(h)
    \/ HandlerDeleteClient(h)
    \/ RollbackDeleteOnline(h)
    \/ DeferredClose(h)
    \/ EnqueueJoin(h)
    \/ \E p \in Payloads : ChatRead(h, p)
    \/ ChatStamp(h)
    \/ ChatEnqueue(h)
    \/ LeaveReadFail(h)
    \/ LeaveDeleteOnline(h)
    \/ EnqueueLeave(h)
    \/ EnqueuePresence(h)

BroadcasterStep ==
    \/ \E c \in Conns : BroadcastYield(c)
    \/ \E c \in Conns : BroadcastSend(c)
    \/ \E c \in Conns : BroadcastSendFail(c)
    \/ EvictLock
    \/ EvictDelete
    \/ BroadcastDone
    \/ BroadcastSendPanic

Next ==
    \/ \E h \in Conns : HandlerStep(h)
    \/ BroadcasterStep
    \/ RaceFatal

Spec == Init /\ [][Next]_vars

\* scheduling: the Go scheduler runs every runnable goroutine; sync.Mutex
\* (starvation mode) and the channel's FIFO queue of waiting senders let every
\* waiter through.  Nothing obliges a peer to send, fail or disconnect.
HandlerLocal(h) ==
    \/ JoinRegister(h)
    \/ ClientsRegister(h)
    \/ HandlerDeleteClient(h)
    \/ RollbackDeleteOnline(h)
    \/ DeferredClose(h)
    \/ LeaveDeleteOnline(h)
    \/ ChatStamp(h)

HandlerEnqueue(h) ==
    \/ EnqueueJoin(h)
    \/ ChatEnqueue(h)
    \/ EnqueueLeave(h)
    \/ EnqueuePresence(h)

Fairness ==
    /\ WF_vars(BroadcasterStep)
    /\ SF_vars(EvictLock)
    /\ \A h \in Conns : /\ WF_vars(HandlerLocal(h))
                        /\ WF_vars(PresenceSendOK(h) \/ PresenceSendFail(h))
                        /\ SF_vars(HandlerLock(h))
                        /\ SF_vars(HandlerEnqueue(h))

FairSpec == Spec /\ Fairness

\* ------------------------------------------------------------ properties
\* the range over clients of the current fan-out is exhausted
FanOutEnd == bpc = "L96" /\ todo = {}

\* registered when cur was dequeued and still registered
Recipients == regAtDeq \cap DOMAIN clients

\* names under which some handler has registered so far
EverRegisteredNames ==
    {clientName[h] : h \in {g \in Conns : pc[g] \notin {"L33", "L41", "L49",
                                                        "L50", "L53"}
                                          /\ handshake[g] = "named"}}

\* C1, as stated: in every reachable state a display name is in onlineUsers
\* if and only if at least one connection registered in clients maps to it.
OnlineIffRegistered ==
    \A n \in Names :
        (n \in DOMAIN onlineUsers) <=> (\E c \in DOMAIN clients : clients[c] = n)

\* C2, as stated: a task that is about to read or write clients or
\* onlineUsers holds mu, and no two tasks are about to touch clients at once.
AccessesHoldMu ==
    /\ \A h \in Conns :
          pc[h] \in {"L50", "L53", "L61", "L63", "L77", "L79"} => mu = h
    /\ bpc \in {"L96", "L108"} => mu = Broadcaster
    /\ ~ClientsRace

\* C3: no connection gets a second copy of the message being fanned out, and
\* when the fan-out of a chat message ends without a failed send, every
\* connection registered at its dequeue and still registered, the sender's
\* included, has received exactly one copy.
FanOutComplete ==
    /\ \A c \in Conns : copies[c] <= 1
    /\ (FanOutEnd /\ cur.site = "L89" /\ failedNow = {})
          => \A c \in Recipients : copies[c] = 1

\* a chat fan-out has ended with two recipients served, the sender among them
FanOutCompleteWitness ==
    /\ FanOutEnd /\ cur.site = "L89" /\ failedNow = {}
    /\ cur.from \in Recipients
    /\ Cardinality(Recipients) >= 2
    /\ \A c \in Recipients : copies[c] = 1

\* C4: when a fan-out in which a send failed ends, the failed recipients are
\* closed and out of clients and every other recipient has its copy; the
\* eviction removes the victim's connection and name; and the step in which
\* the send fails moves no handler and leaves the process running.
EvictionContained ==
    /\ [](FanOutEnd /\ failedNow # {}
            => /\ \A c \in failedNow : closed[c] /\ c \notin DOMAIN clients
               /\ \A c \in Recipients : copies[c] = 1)
    /\ [][(bpc = "L108" /\ bpc' = "L96")
            => /\ victim.client \notin DOMAIN clients'
               /\ victim.name \notin DOMAIN onlineUsers']_vars
    /\ [][failedNow' # failedNow /\ failedNow' # {}
            => pc' = pc /\ alive']_vars

\* a fan-out has ended in which one send failed and another recipient was served
EvictionContainedWitness ==
    /\ FanOutEnd /\ failedNow # {}
    /\ \E c \in Recipients : copies[c] = 1 /\ c \notin failedNow

\* C5: the presence message of a leave is never written to the leaver's own
\* connection, which left clients before the message was dequeued, and when
\* its fan-out ends every connection registered at the dequeue and still
\* registered has received it.
NoSelfEchoOnLeave ==
    /\ cur.site = "L83"
          => /\ cur.from \notin regAtDeq
             /\ cur.from \notin DOMAIN clients
             /\ copies[cur.from] = 0
             /\ FanOutEnd => \A c \in Recipients : copies[c] = 1
    /\ \A c \in Conns : ~(lastRecv[c].site = "L83" /\ lastRecv[c].from = c)

\* the presence message of a leave has been delivered to a remaining connection
NoSelfEchoWitness ==
    /\ FanOutEnd /\ cur.site = "L83"
    /\ \E c \in Recipients : copies[c] = 1 /\ c # cur.from

\* C6, as stated: a presence message a connection receives does not list the
\* recipient's own name.
PresenceExcludesRecipient ==
    \A c \in Conns :
        lastRecv[c].msg.type = "online_users"
            => clientName[c] \notin lastRecv[c].msg.users

\* C6, amended: the snapshot taken at join is the online set right after the
\* insertion of the joiner's name and is what the joiner receives, so that the
\* presence message unicast at join lists the recipient's own name and
\* otherwise only names that have registered; the snapshot taken at leave is
\* the online set right after the removal of the leaver's name, so that the
\* presence message of a leave never lists the leaver's name.
PresenceListsOnlineSet ==
    /\ [](\A c \in Conns :
            lastRecv[c].site = "L57"
                => /\ lastRecv[c].msg.type = "online_users"
                   /\ clientName[c] \in lastRecv[c].msg.users
                   /\ lastRecv[c].msg.users \subseteq EverRegisteredNames)
    /\ [](cur.site = "L83"
            => /\ cur.msg.type = "online_users"
               /\ clientName[cur.from] \notin cur.msg.users
               /\ cur.msg.users \subseteq EverRegisteredNames)
    /\ [][\A h \in Conns :
            /\ (pc[h] \in {"L50", "L79"} /\ pc'[h] # pc[h])
                  => snap'[h] = DOMAIN onlineUsers'
            /\ (pc[h] = "L57" /\ pc'[h] = "L69")
                  => lastRecv'[h].msg.users = snap[h]
            /\ (pc[h] = "L83" /\ pc'[h] = "L37")
                  => cur'.msg.users = snap[h]]_vars

\* the second client to join has received the names of both, and the first
\* one has left, its presence message listing the one that remains
PresenceListsWitness ==
    \E c \in Conns :
        /\ lastRecv[c].site = "L57"
        /\ lastRecv[c].msg.users = {"Alice", "Bob"}
        /\ cur.site = "L83" /\ cur.from # c
        /\ cur.msg.users = {clientName[c]}

\* C7: a message the receive loop hands to the broadcaster is of type
\* "message" and carries the name the connection joined with; join, leave and
\* presence messages come only from lines 69, 82 and 83, with an empty name.
SenderForced ==
    /\ \A h \in Conns :
          pc[h] = "L89" => /\ out[h].type = "message"
                           /\ out[h].name = clientName[h]
    /\ cur.site = "L89" => /\ cur.msg.type = "message"
                           /\ cur.msg.name = clientName[cur.from]
    /\ (cur.site # "" /\ cur.msg.type # "message")
          => cur.site \in {"L69", "L82", "L83"} /\ cur.msg.name = NoName
    /\ \A c \in Conns :
          lastRecv[c].msg.type = "message"
              => /\ lastRecv[c].site = "L89"
                 /\ lastRecv[c].msg.name = clientName[lastRecv[c].from]

\* a chat message of Bob's connection, whose payload carried a users list, is
\* being fanned out under Bob's name and has reached another connection
SenderForcedWitness ==
    /\ cur.site = "L89"
    /\ clientName[cur.from] = "Bob"
    /\ cur.msg.users = {"Alice"}
    /\ \E c \in Conns : c # cur.from /\ copies[c] = 1

\* C8: a handler whose first receive failed or carried an empty name ends,
\* its connection closed on the way out, unregistered and never written to; the
\* step that ends it changes neither map nor the broadcaster's state; the
\* empty name is never online.
HandshakeErrorNoEffect ==
    /\ [](\A h \in Conns :
            handshake[h] \in {"err", "empty"}
                => /\ pc[h] \in {"L37", "done"}
                   /\ pc[h] = "done" => closed[h]
                   /\ h \notin DOMAIN clients
                   /\ clientName[h] = NoName
                   /\ lastRecv[h] = NoEnvelope)
    /\ [](NoName \notin DOMAIN onlineUsers)
    /\ [][\A h \in Conns :
            (pc[h] = "L41" /\ handshake'[h] \in {"err", "empty"})
                => UNCHANGED <<clients, onlineUsers, mu, bpc, cur, todo,
                               lastRecv>>]_vars

\* a handshake with an empty name has ended while another client is online
HandshakeErrorWitness ==
    \E h \in Conns :
        /\ handshake[h] = "empty" /\ pc[h] = "done" /\ closed[h]
        /\ DOMAIN clients # {}

\* C9, as stated: no failure on one connection terminates the server process.
ProcessSurvives == alive

\* where a handler waits for mu (lines 49, 62, 78) or for the broadcaster to
\* take its message (lines 69, 82, 83, 89)
WaitPcs == {"L49", "L62", "L78", "L69", "L82", "L83", "L89"}

\* C10, as stated: a handler waiting for mu or waiting to hand a message to
\* the broadcaster, and the broadcaster waiting for mu, eventually proceed.
WaitersProceed ==
    /\ \A h \in Conns : \A p \in WaitPcs : (pc[h] = p) ~> (pc[h] # p)
    /\ (bpc = "L107") ~> (bpc # "L107")

\* ------------------------------------------------------ ordering, C11-C20
\* position of a send in the text of handleConnections
SiteRank(site) ==
    CASE site = "L57" -> 0
      [] site = "L69" -> 1
      [] site = "L89" -> 2
      [] site = "L82" -> 3
      [] site = "L83" -> 4

\* the sends of one handler follow the program text; only line 89 repeats
InProgramOrder(s) ==
    \A i, j \in 1..Len(s) :
        i < j => /\ SiteRank(s[i]) <= SiteRank(s[j])
                 /\ (s[i] = s[j] => s[i] = "L89")

\* C11: the broadcaster takes one message at a time, numbered by deqCount;
\* every frame it writes to a connection is the message taken last and is
\* newer than the last frame written to that connection, so that what a
\* connection receives is a subsequence of the dequeue order; and a handler's
\* send on the channel completes only by the broadcaster taking that very
\* message, in the order of the handler's program text.
DeliveryInOrder ==
    /\ [][/\ deqCount' \in {deqCount, deqCount + 1}
          /\ (deqCount' # deqCount) <=> (bpc = "L95" /\ bpc' = "L96")
          /\ \A c \in Conns :
                /\ copies'[c] > copies[c]
                      => /\ lastSeq[c] < deqCount
                         /\ lastSeq'[c] = deqCount
                         /\ deqCount' = deqCount
                         /\ lastRecv'[c] = cur
                /\ lastSeq'[c] # lastSeq[c] => copies'[c] > copies[c]
          /\ \A h \in Conns :
                sent'[h] # sent[h]
                    => /\ Len(sent'[h]) = Len(sent[h]) + 1
                       /\ SubSeq(sent'[h], 1, Len(sent[h])) = sent[h]
                       /\ sent'[h][Len(sent'[h])] # "L57"
                             => /\ cur = NoEnvelope
                                /\ cur'.from = h
                                /\ cur'.site = sent'[h][Len(sent'[h])]
                                /\ deqCount' = deqCount + 1]_vars
    /\ [](\A h \in Conns : InProgramOrder(sent[h]))

\* a connection alone on the server has received its join message and then
\* its chat message, the first and the second message dequeued
DeliveryInOrderWitness ==
    \E c \in Conns :
        /\ \A d \in Conns \ {c} : pc[d] = "L33"
        /\ deqCount = 2 /\ lastSeq[c] = 2
        /\ sent[c] = <<"L57", "L69", "L89">>
        /\ lastRecv[c].site = "L89" /\ lastRecv[c].from = c

\* C12, as stated: every name of a snapshot held by a handler has been, up to
\* the moment the snapshot was taken, the name of a connection in clients.
SnapshotNamesRegistered == \A h \in Conns : snap[h] \subseteq everReg

\* C12, amended: the snapshot of a join is taken on line 52, before line 53
\* enters the joiner in clients, so it holds the joiner's own name ahead of
\* its registration; every other name in it, every name of a snapshot that
\* has left the critical section (unicast at line 57, enqueued at line 83),
\* and every name of a leave snapshot has been the name of a connection in
\* clients.
SnapshotNamesRegisteredOnRelease ==
    /\ \A h \in Conns :
          IF pc[h] = "L53"
          THEN /\ clientName[h] \in snap[h]
               /\ snap[h] \ {clientName[h]} \subseteq everReg
          ELSE snap[h] \subseteq everReg
    /\ \A c \in Conns :
          lastRecv[c].site = "L57" => lastRecv[c].msg.users \subseteq everReg
    /\ cur.site = "L83" => cur.msg.users \subseteq everReg
    /\ DOMAIN onlineUsers
          \subseteq everReg \cup {clientName[h] : h \in {g \in Conns : pc[g] = "L53"}}

\* a second joiner holds a snapshot with both names while only the first
\* has been entered in clients
SnapshotNamesWitness ==
    \E h \in Conns :
        /\ pc[h] = "L53" /\ clientName[h] = "Bob"
        /\ snap[h] = {"Alice", "Bob"}
        /\ everReg = {"Alice"}

\* C13, as stated: after a failed unicast of the snapshot (line 57) the
\* handler takes the connection out of clients (line 61) and its name out of
\* onlineUsers (line 63) and ends, and none of these steps hands a message to
\* the broadcaster; and a connection whose handler has ended is never in
\* clients.
JoinRollback ==
    /\ [][\A h \in Conns :
            /\ (pc[h] = "L57" /\ pc'[h] = "L61")
                  => /\ sent'[h] = <<>>
                     /\ UNCHANGED <<clients, onlineUsers, cur, deqCount>>
            /\ (pc[h] = "L61" /\ pc'[h] # pc[h])
                  => /\ pc'[h] = "L62"
                     /\ h \notin DOMAIN clients'
                     /\ UNCHANGED <<sent, cur, deqCount>>
            /\ (pc[h] = "L62" /\ pc'[h] # pc[h])
                  => /\ pc'[h] = "L63"
                     /\ UNCHANGED <<sent, cur, deqCount>>
            /\ (pc[h] = "L63" /\ pc'[h] # pc[h])
                  => /\ pc'[h] = "L37"
                     /\ clientName[h] \notin DOMAIN onlineUsers'
                     /\ sent'[h] = <<>>
                     /\ UNCHANGED <<cur, deqCount>>]_vars
    /\ [](\A h \in Conns : pc[h] = "done" => h \notin DOMAIN clients)

\* the join message of h is handed over at line 69 after line 53 entered h
\* in clients and after the write of line 57 succeeded
JoinHandedAfterSnapshot ==
    [][\A h \in Conns :
          (pc[h] = "L69" /\ pc'[h] # pc[h])
              => /\ sent[h] = <<"L57">>
                 /\ clientName[h] \in everReg
                 /\ lastRecv[h] # NoEnvelope
                 /\ cur' = Envelope(Message("join", NoName,
                                            JoinedText(clientName[h]), {}),
                                    h, "L69")]_vars

\* C14, as stated: a join message is handed to the broadcaster only after
\* the joiner has been registered and has been sent its snapshot, and the
\* fan-out of a join message ends with a copy delivered to every other
\* connection that was registered when it was dequeued.
JoinSeenByAll ==
    /\ JoinHandedAfterSnapshot
    /\ []((FanOutEnd /\ cur.site = "L69")
            => \A c \in regAtDeq \ {cur.from} : copies[c] = 1)

\* C14, amended: the hand-over is as stated; the fan-out of a join message
\* ends with exactly one copy delivered to every connection registered at
\* the dequeue and still registered, the joiner's own included; a connection
\* registered at the dequeue and no longer registered has had its write fail
\* (and was evicted) or was removed by its own handler.
JoinSeenByRegistered ==
    /\ JoinHandedAfterSnapshot
    /\ []((FanOutEnd /\ cur.site = "L69")
            => /\ \A c \in Recipients : copies[c] = 1
               /\ \A c \in regAtDeq \ Recipients :
                     \/ c \in failedNow /\ copies[c] = 0
                     \/ pc[c] \in {"L62", "L63", "L78", "L79", "L82", "L83",
                                   "L37", "done"})

\* the fan-out of a join message has ended with a copy delivered to the
\* joiner and to the connection that had joined before
JoinSeenWitness ==
    /\ FanOutEnd /\ cur.site = "L69"
    /\ regAtDeq = Conns /\ Recipients = Conns
    /\ \A c \in Conns : copies[c] = 1

\* number of sends of handler h completed at a given line
SendsAt(h, site) == Cardinality({i \in 1..Len(sent[h]) : sent[h][i] = site})

\* C15: after a failed receive (line 74) the handler takes the connection
\* out of clients (line 77) and its name out of onlineUsers (line 79), takes
\* the snapshot of the online set as that removal left it (line 80), hands
\* over one leave message (line 82) and then one presence message carrying
\* that snapshot (line 83), and ends; the broadcaster takes the leave message
\* before the presence message.
LeaveSequence ==
    /\ [][\A h \in Conns :
            /\ (pc[h] = "L74" /\ pc'[h] = "L77")
                  => UNCHANGED <<clients, onlineUsers, sent, cur>>
            /\ (pc[h] = "L77" /\ pc'[h] # pc[h])
                  => /\ pc'[h] = "L78"
                     /\ h \notin DOMAIN clients'
                     /\ UNCHANGED <<onlineUsers, sent, cur>>
            /\ (pc[h] = "L78" /\ pc'[h] # pc[h])
                  => /\ pc'[h] = "L79"
                     /\ UNCHANGED <<clients, onlineUsers, sent, cur>>
            /\ (pc[h] = "L79" /\ pc'[h] # pc[h])
                  => /\ pc'[h] = "L82"
                     /\ DOMAIN onlineUsers'
                           = DOMAIN onlineUsers \ {clientName[h]}
                     /\ snap'[h] = DOMAIN onlineUsers'
                     /\ UNCHANGED <<clients, sent, cur>>
            /\ (pc[h] = "L82" /\ pc'[h] # pc[h])
                  => /\ pc'[h] = "L83"
                     /\ cur = NoEnvelope
                     /\ cur' = Envelope(Message("leave", NoName,
                                                LeftText(clientName[h]), {}),
                                        h, "L82")
                     /\ deqCount' = deqCount + 1
                     /\ snap'[h] = snap[h]
            /\ (pc[h] = "L83" /\ pc'[h] # pc[h])
                  => /\ pc'[h] = "L37"
                     /\ cur = NoEnvelope
                     /\ cur' = Envelope(Message("online_users", NoName, "",
                                                snap[h]),
                                        h, "L83")
                     /\ deqCount' = deqCount + 1
                     /\ h \notin DOMAIN clients]_vars
    /\ [](\A h \in Conns :
            /\ SendsAt(h, "L82") <= 1 /\ SendsAt(h, "L83") <= 1
            /\ (pc[h] = "L83") => SendsAt(h, "L82") = 1 /\ SendsAt(h, "L83") = 0
            /\ (SendsAt(h, "L83") = 1)
                  => /\ pc[h] \in {"L37", "done"}
                     /\ Len(sent[h]) >= 2
                     /\ sent[h][Len(sent[h]) - 1] = "L82"
                     /\ sent[h][Len(sent[h])] = "L83"
            /\ (pc[h] \in {"L77", "L78", "L79", "L82"})
                  => SendsAt(h, "L82") = 0 /\ SendsAt(h, "L83") = 0)

\* a connection has left after its join: its leave message and then its
\* presence message were taken, the latter listing the one that remains
LeaveSequenceWitness ==
    \E h \in Conns :
        /\ pc[h] = "done"
        /\ sent[h] = <<"L57", "L69", "L82", "L83">>
        /\ cur.site = "L83" /\ cur.from = h
        /\ cur.msg.users # {} /\ cur.msg.users = DOMAIN onlineUsers

\* the steps of an eviction (lines 104-110) hand nothing to the broadcaster's
\* channel
EvictionStepsSilent ==
    [][((bpc = "L97" /\ bpc' = "L107") \/ (bpc \in {"L107", "L108"} /\ bpc' # bpc))
          => UNCHANGED <<cur, deqCount, sent>>]_vars

\* C16, as stated: the eviction hands over nothing, and no leave or presence
\* message of a connection that the broadcaster evicted is enqueued.
SilentEviction ==
    /\ EvictionStepsSilent
    /\ [](\A h \in evicted :
            /\ SendsAt(h, "L82") = 0
            /\ cur.from = h => cur.site \notin {"L82", "L83"})

\* C16, amended: the eviction itself hands over nothing, but it closes the
\* connection (line 106), so nothing more is written to the evicted
\* connection and its handler, which can at most receive and relay what had
\* arrived before the close, goes the way of a disconnect when a receive
\* fails: it hands over the leave message and then the presence message of
\* lines 82-83 (from the write of line 57 it rolls back, or ends there).  The
\* evicted connection is out of clients when these are dequeued.
EvictionThenLeave ==
    /\ EvictionStepsSilent
    /\ [](\A h \in evicted : closed[h] /\ pc[h] # "done")
    /\ [][\A h \in evicted :
            /\ (pc[h] = "L74" /\ pc'[h] # pc[h]) => pc'[h] \in {"L77", "L87"}
            /\ (pc[h] = "L57" /\ pc'[h] # pc[h]) => pc'[h] \in {"L61", "L37"}
            /\ lastRecv'[h] = lastRecv[h]
            /\ (pc[h] = "L82" /\ pc'[h] # pc[h])
                  => /\ cur' = Envelope(Message("leave", NoName,
                                                LeftText(clientName[h]), {}),
                                        h, "L82")
                     /\ h \notin regAtDeq'
            /\ (pc[h] = "L83" /\ pc'[h] # pc[h])
                  => /\ cur' = Envelope(Message("online_users", NoName, "",
                                                snap[h]),
                                        h, "L83")
                     /\ h \notin regAtDeq']_vars

\* the leave message of a connection that the broadcaster evicted has been
\* written to the connection that remains
EvictionThenLeaveWitness ==
    \E h \in evicted :
        /\ pc[h] = "L83"
        /\ cur.site = "L82" /\ cur.from = h
        /\ \E c \in Conns \ {h} : copies[c] = 1 /\ lastRecv[c] = cur

\* C17, as stated: a handler whose delete(clients, ws) at line 77 finds the
\* connection already out of clients changes neither clients nor
\* onlineUsers, at that line and at line 79, whatever has joined meanwhile.
LeaveOfAbsentIsNoOp ==
    [][\A h \in Conns :
          /\ (pc[h] = "L77" /\ pc'[h] # pc[h] /\ h \notin DOMAIN clients)
                => /\ pc'[h] = "L78"
                   /\ UNCHANGED <<clients, onlineUsers>>
          /\ (pc[h] = "L79" /\ pc'[h] # pc[h] /\ h \in gone)
                => /\ pc'[h] = "L82"
                   /\ UNCHANGED <<clients, onlineUsers>>]_vars

\* C18, as stated: in no reachable state are the handler of a connection
\* (line 57) and the broadcaster (line 103) both about to write to that
\* connection.
NoWriteOverlap == \A h \in Conns : ~WriteOverlap(h)

\* C19, as stated: a connection to which the broadcaster writes a frame has
\* already been written its presence snapshot by its handler (line 57), so
\* that the snapshot is the first frame it receives.
SnapshotComesFirst ==
    [][\A c \in Conns :
          copies'[c] > copies[c]
              => Len(sent[c]) >= 1 /\ sent[c][1] = "L57"]_vars

\* every presence message the broadcaster holds has an empty name, and the
\* test of lines 97-101 is false for the entry its range has yielded and for
\* every entry it may yield
SuppressionIdle ==
    /\ cur.msg.type = "online_users" => cur.msg.name = NoName
    /\ bpc = "L97" => ~Suppressed(cur.msg, victim.name)
    /\ \A c \in todo \cap DOMAIN clients : ~Suppressed(cur.msg, clients[c])

\* C20, as stated: the suppression rule never fires, and a fan-out ends with
\* a write attempted on every connection that was in clients during it.
AllPresentAttempted ==
    /\ SuppressionIdle
    /\ FanOutEnd
          => \A c \in regAtDeq \cup DOMAIN clients :
                copies[c] = 1 \/ c \in failedNow

\* C20, amended: the suppression rule never fires, so that every connection
\* the range over clients yields is written to (the write succeeds or fails),
\* and a fan-out ends with one copy written to every connection in clients
\* from the dequeue to the end of the range.  A connection entered in
\* clients while the range is under way may be yielded or skipped, and one
\* deleted before the range reaches it is not yielded.
AllYieldedAttempted ==
    /\ []SuppressionIdle
    /\ [][/\ (bpc = "L96" /\ bpc' # bpc /\ todo # {})
                => bpc' = "L97" /\ victim'.client \in todo
          /\ (bpc = "L97" /\ bpc' # bpc)
                => \/ /\ bpc' = "L96"
                      /\ copies'[victim.client] = copies[victim.client] + 1
                      /\ lastRecv'[victim.client] = cur
                   \/ /\ bpc' = "L107"
                      /\ victim.client \in failedNow'
                      /\ closed'[victim.client]]_vars
    /\ [](FanOutEnd => \A c \in Recipients : copies[c] = 1)

\* the fan-out of a presence message has ended with a copy written to a
\* connection registered under a name that the message lists
AllYieldedWitness ==
    /\ FanOutEnd /\ cur.site = "L83"
    /\ \E c \in Recipients : copies[c] = 1 /\ clients[c] \in cur.msg.users

====
